---- MODULE Spec2Model ----
(***************************************************************************)
(* Idea wall: the wall applier (src/lib/planApply.ts), the applied-plan    *)
(* reconciler (src/lib/clearAppliedPlan.ts, clearWall) and the local       *)
(* board store with its change listeners (src/lib/db.ts).                  *)
(*                                                                         *)
(* The store is the browser's localStorage: one JSON array of notes and    *)
(* one of edges per board, plus the transcript array.  A value is modelled *)
(* as the array readArray() returns for it (a missing key reads as the     *)
(* empty array).  Lengths are in thousandths of a board unit.              *)
(*                                                                         *)
(* A behaviour follows one invocation of applyPlanToWall together with the *)
(* user and reconciler operations that run before and after it.  The       *)
(* operations of the store are async functions without any real            *)
(* suspension: every await in applyPlanToWall waits on an already settled  *)
(* promise, so the invocation runs to its end in microtasks and no UI      *)
(* handler runs inside it.  The steps of the invocation are separate       *)
(* actions so that the order of its store calls and a failing store write  *)
(* are visible; the other operations are enabled only outside of it.       *)
(***************************************************************************)
EXTENDS Integers, Sequences, FiniteSets, TLC

(* ------------------------------ bounds --------------------------------- *)

\* longest workplan.tasks array
MaxTasks == 2
\* longest workflow_edges array
MaxEdges == 2
\* notes the user adds by hand in one behaviour
MaxUser == 1

(* ------------------------- program constants --------------------------- *)

spacingX == 280
spacingY == 200
noteSize == 180
startX == -600
startY == 350
DefaultCap == 8

(* ------------------------------ inputs --------------------------------- *)

\* The i-th task of a plan is titled TaskTitles[i]; it carries the id
\* TaskIds[i] or no id (the empty string), and names a lane or none.
TaskTitles == <<"A", "B", "C">>
TaskIds == <<"1", "", "">>
TaskLanes == {"", "BE"}
LaneLists == {<< >>, <<"FE", "BE">>, <<"FE", "FE">>}
CapSet == {0, 1, DefaultCap}
\* endpoints of workflow edges: titles, a title with a leading blank, an id
EdgeKeys == {"A", "B", " B", "1"}

Tasks(i) == [id : {"", TaskIds[i]}, title : {TaskTitles[i]}, lane : TaskLanes]

RECURSIVE TaskLists(_)
TaskLists(n) ==
  IF n = 0 THEN {<< >>}
  ELSE LET shorter == TaskLists(n - 1)
       IN  shorter \cup {Append(ts, t) : ts \in {s \in shorter : Len(s) = n - 1}, t \in Tasks(n)}

\* AIOutput.workplan as handed to the applier, with opts.maxPerLane
Plans == [tasks : TaskLists(MaxTasks), lanes : LaneLists, cap : CapSet]
WorkflowEdges == [from : EdgeKeys, to : EdgeKeys]

NoPlan == [tasks |-> << >>, lanes |-> << >>, cap |-> 0]
NoEdge == [from |-> "", to |-> ""]
NoBoard == [placed |-> FALSE, pos |-> <<0, 0, 0>>, cos5 |-> 5, sin5 |-> 0]
\* Web2DScene places its board mesh at (0, 0.3, 0), tilted back about its x
\* axis.  The orientation is the rotation about x whose cosine is cos5/5 and
\* whose sine is sin5/5; the tilt taken here has cosine 4/5 and sine -3/5,
\* which keeps the rotated grid points exact in thousandths.
BoardPoses == {[placed |-> TRUE, pos |-> <<0, 300, 0>>, cos5 |-> 4, sin5 |-> -3]}

VARIABLES
  notes,        \* localStorage notes_<board>: array of stored notes
  edges,        \* localStorage edges_<board>: array of stored edges
  transcript,   \* localStorage transcripts_<board>
  nextId,       \* the next value uid() returns
  board,        \* xr.boardMesh || xr.boardAnchor
  pc,           \* applyPlanToWall: idle, notes, edges, done, failed
  plan,         \* aiOut and opts of the invocation
  byLane,       \* lane -> accepted tasks
  lx,           \* lane loop index (1-based)
  row,          \* 0: the lane's header is next; r: its r-th task is next
  idByTaskKey,  \* task key -> id of the note created for it
  eIdx,         \* workflow edges consumed so far
  e,            \* the workflow edge of the last loop iteration
  err,          \* the error the invocation rejected with
  snapNotes,    \* notes when the invocation started
  snapEdges,    \* edges when the invocation started
  ops,          \* store calls of the invocation, in call order: the call, the
                \* id it returned, and the lane and row (addNote) or the
                \* position in workflow_edges (addEdge) it was made for
  prevNotes,    \* listenNotes: prev
  prevEdges,    \* listenEdges: prev
  cbs,          \* listener callbacks delivered by the current operation
  userAdds,     \* notes the user has added by hand
  last,         \* the operation that ran last
  again,        \* the operation before it was the same operation
  fn,           \* the function of the AI-output pipeline that ran last
  arg,          \* the argument it was called with
  res           \* what it returned

vars == <<notes, edges, transcript, nextId, board, pc, plan, byLane, lx, row,
          idByTaskKey, eIdx, e, err, snapNotes, snapEdges, ops,
          prevNotes, prevEdges, cbs, userAdds, last, again, fn, arg, res>>

\* The AI-output pipeline works on values of its own: the wall never reads
\* them and the pipeline never reads the wall
wall == <<notes, edges, transcript, nextId, board, pc, plan, byLane, lx, row,
          idByTaskKey, eIdx, e, err, snapNotes, snapEdges, ops,
          prevNotes, prevEdges, cbs, userAdds, last, again>>
pipeline == <<fn, arg, res>>

(* ------------------------------ helpers -------------------------------- *)

Range(s) == {s[i] : i \in 1..Len(s)}
Ids(s) == {s[i].id : i \in 1..Len(s)}
Map(s, Op(_)) == [i \in 1..Len(s) |-> Op(s[i])]
SeqsUpTo(S, n) == UNION {[1..k -> S] : k \in 0..n}

(* --------------------------- JavaScript values -------------------------- *)

\* A scalar is its type and the string String() makes of it; any object
\* without a toString of its own is AnObject.
Undefined == [t |-> "undefined", s |-> "undefined"]
Null == [t |-> "null", s |-> "null"]
Num(s) == [t |-> "number", s |-> s]
Str(s) == [t |-> "string", s |-> s]
AnObject == [t |-> "object", s |-> "[object Object]"]
String(v) == v.s
\* v ? ... : ...
Truthy(v) ==
  \/ v.t = "object"
  \/ v.t = "string" /\ v.s # ""
  \/ v.t = "number" /\ v.s \notin {"0", "NaN"}
\* v ?? d
OrElse(v, d) == IF v.t \in {"undefined", "null"} THEN d ELSE v
\* A trim that takes one blank off each end
Trim_OneBlank(s) ==
  CASE s = " " -> ""
    [] s = " A " -> "A"
    [] s = "  A" -> " A"
    [] s = " A" -> "A"
    [] OTHER -> s
\* String.prototype.trim, on the strings that occur
Trim(s) ==
  CASE s = " " -> ""
    [] s = " A " -> "A"
    [] s = "  A" -> "A"
    [] s = " A" -> "A"
    [] OTHER -> s

(* -------------------------------- db.ts -------------------------------- *)

\* The 4th and 5th positional arguments of addEdge
AiTag == "{aiGenerated:true}"
NoExtra == "undefined"

\* position is pose.position, a point of world space
NoteDoc(text, position, size, ai) ==
  [text |-> text, position |-> position, size |-> size, votes |-> 0, ai |-> ai]

\* addNote: stored = { id, ...note }
StoredNote(id, doc) ==
  [id |-> id, text |-> doc.text, position |-> doc.position, size |-> doc.size,
   votes |-> doc.votes, ai |-> doc.ai]

\* addEdge(boardId, from, to, kind = "follows", extra?): rest holds the
\* positional arguments the caller passes after `to`.
StoredEdge(id, from, to, rest) ==
  LET kind  == IF Len(rest) >= 1 THEN rest[1] ELSE "follows"
      extra == IF Len(rest) >= 2 THEN rest[2] ELSE NoExtra
  IN  [id |-> id, from |-> from, to |-> to, kind |-> kind, ai |-> (extra = AiTag)]

\* A handler that does not compare with prev: every stored doc is "added"
DocChanges_AllAdded(topic, prev, curr) ==
  Map(curr, LAMBDA c : [topic |-> topic, id |-> c.id, type |-> "added"])

\* The handler of listenNotes / listenEdges: removed first (in prev order),
\* then added / modified (in curr order).
DocChanges(topic, prev, curr) ==
  LET removed == SelectSeq(prev, LAMBDA p : p.id \notin Ids(curr))
      kindOf(c) == IF c.id \notin Ids(prev) THEN "added"
                   ELSE IF c \notin Range(prev) THEN "modified" ELSE "same"
      changed == SelectSeq(curr, LAMBDA c : kindOf(c) # "same")
  IN  Map(removed, LAMBDA p : [topic |-> topic, id |-> p.id, type |-> "removed"])
      \o Map(changed, LAMBDA c : [topic |-> topic, id |-> c.id, type |-> kindOf(c)])

(* ---------------------------- planApply.ts ----------------------------- *)

\* const lanes = workplan.lanes non-empty ? workplan.lanes : ["Tasks"]
Lanes(p) == IF Len(p.lanes) > 0 THEN p.lanes ELSE <<"Tasks">>

\* A fallback to the last lane in place of the first
LaneOf_Last(t, lanes) ==
  IF t.lane # "" /\ t.lane \in Range(lanes) THEN t.lane ELSE lanes[Len(lanes)]

\* const lane = t.lane && lanes.includes(t.lane) ? t.lane : lanes[0]
LaneOf(t, lanes) ==
  IF t.lane # "" /\ t.lane \in Range(lanes) THEN t.lane ELSE lanes[1]

\* for (const t of tasks) if (byLane[lane].length < cap) byLane[lane].push(t)
RECURSIVE PushTasks(_, _, _, _)
PushTasks(tasks, lanes, cap, acc) ==
  IF tasks = << >> THEN acc
  ELSE LET t == Head(tasks)
           lane == LaneOf(t, lanes)
       IN  PushTasks(Tail(tasks), lanes, cap,
                     IF Len(acc[lane]) < cap
                     THEN [acc EXCEPT ![lane] = Append(@, t)]
                     ELSE acc)

\* byLane filled with the test length <= cap in place of length < cap
ByLane_OneMore(p) ==
  PushTasks(p.tasks, Lanes(p), p.cap + 1, [l \in Range(Lanes(p)) |-> << >>])

\* byLane filled from the task array read back to front
ByLane_Reversed(p) ==
  PushTasks([i \in 1..Len(p.tasks) |-> p.tasks[Len(p.tasks) + 1 - i]],
            Lanes(p), p.cap, [l \in Range(Lanes(p)) |-> << >>])

ByLane(p) == PushTasks(p.tasks, Lanes(p), p.cap, [l \in Range(Lanes(p)) |-> << >>])

\* Precondition without its first check
Precondition_NoTaskCheck(p, b) ==
  IF ~b.placed THEN "Board not placed yet." ELSE "ok"

\* The two precondition checks, in the order the code makes them
Precondition(p, b) ==
  IF Len(p.tasks) = 0 THEN "No tasks to apply."
  ELSE IF ~b.placed THEN "Board not placed yet."
  ELSE "ok"

\* A conversion that adds the board's position and leaves out its orientation
b2w_NoRotation(b, x, y) ==
  <<b.pos[1] + x, b.pos[2] + y, b.pos[3]>>

\* boardLocalToWorld: local.applyQuaternion(bQuat).add(bPos), for a local
\* point (x, y, 0) and a board rotated about its x axis
b2w(b, x, y) ==
  <<b.pos[1] + x, b.pos[2] + (y * b.cos5) \div 5, b.pos[3] + (y * b.sin5) \div 5>>

\* summarizeTaskTitle: "[priority] title", priority defaulting to P1
\* The text is kept as its segments: "[priority]", the title, and the owner
\* and eta segments when those are given.
summarizeTaskTitle(title, priority, owner, eta) ==
  << "[" \o (IF priority = Undefined THEN "P1" ELSE String(priority)) \o "]",
     IF title = "" THEN "Task" ELSE title >>
  \o (IF Truthy(owner) THEN <<"- " \o String(owner)>> ELSE << >>)
  \o (IF Truthy(eta) THEN <<"(" \o String(eta) \o ")">> ELSE << >>)

HeaderDoc(b, l, lane) ==
  NoteDoc(<<"lane", lane>>, b2w(b, startX + (l - 1) * spacingX, startY),
          (noteSize * 3) \div 4, TRUE)

TaskDoc(b, l, r, t) ==
  \* the tasks of Plans carry no priority, owner or eta
  NoteDoc(summarizeTaskTitle(t.title, Undefined, Undefined, Undefined),
          b2w(b, startX + (l - 1) * spacingX, startY - r * spacingY),
          noteSize, TRUE)

\* const key = t.id || t.title
TaskKey(t) == IF t.id # "" THEN t.id ELSE t.title

EmptyMap == [k \in {} |-> 0]
MapSet(m, k, v) == [x \in DOMAIN m \cup {k} |-> IF x = k THEN v ELSE m[x]]
\* Map.get: 0 stands for undefined
MapGet(m, k) == IF k \in DOMAIN m THEN m[k] ELSE 0

\* normalizeKey: (s || "").trim()
normalizeKey(s) == IF s = " A" THEN "A" ELSE IF s = " B" THEN "B" ELSE s

\* idByTaskKey.get(k) || idByTaskKey.get(normalizeKey(k))
Resolve(m, k) == IF MapGet(m, k) # 0 THEN MapGet(m, k) ELSE MapGet(m, normalizeKey(k))

\* The wiring test without its comparison of the two ids
Wires_AnyPair(fromId, toId) == fromId # 0 /\ toId # 0

\* if (fromId && toId && fromId !== toId)
Wires(fromId, toId) == fromId # 0 /\ toId # 0 /\ fromId # toId

\* Where the note loops stand after the r-th row of lane l has been placed
After(p, bl, l, r) ==
  IF r < Len(bl[Lanes(p)[l]]) THEN [pc |-> "notes", lx |-> l, row |-> r + 1]
  ELSE IF l < Len(Lanes(p)) THEN [pc |-> "notes", lx |-> l + 1, row |-> 0]
  ELSE [pc |-> "edges", lx |-> 0, row |-> 0]

(* ------------------------- clearAppliedPlan.ts ------------------------- *)

\* A removal that splices the array while walking it by index: the entry
\* behind a removed one moves into its place and is never looked at
RECURSIVE NotAiGenerated_Splice(_)
NotAiGenerated_Splice(s) ==
  IF s = << >> THEN << >>
  ELSE IF ~Head(s).ai THEN <<Head(s)>> \o NotAiGenerated_Splice(Tail(s))
  ELSE IF Len(s) = 1 THEN << >>
  ELSE <<s[2]>> \o NotAiGenerated_Splice(Tail(Tail(s)))

\* A filter that keeps nothing
NotAiGenerated_None(s) == SelectSeq(s, LAMBDA d : FALSE)

\* notes.filter(n => !n.aiGenerated), edges.filter(e => !e.aiGenerated)
NotAiGenerated(s) == SelectSeq(s, LAMBDA d : ~d.ai)

(* ------------------------------- Init ---------------------------------- *)

\* App.tsx NoteModal.onSubmit: the note the user wrote, at the origin
UserDoc == NoteDoc(<<"user">>, <<0, 0, 0>>, noteSize, FALSE)

\* What an earlier session left in the store: a note the user wrote, the
\* header and the task note of an applied plan (the single task A), and an
\* edge the user drew in link mode from their note to the task note.
EarlierBoard == [placed |-> TRUE, pos |-> <<0, 300, 0>>, cos5 |-> 4, sin5 |-> -3]
EarlierSession ==
  [notes |-> << StoredNote(1, UserDoc),
                StoredNote(2, HeaderDoc(EarlierBoard, 1, "Tasks")),
                StoredNote(3, TaskDoc(EarlierBoard, 1, 1, [id |-> "", title |-> "A", lane |-> ""])) >>,
   edges |-> << StoredEdge(4, 1, 3, << >>) >>,
   nextId |-> 5]
FreshStore == [notes |-> << >>, edges |-> << >>, nextId |-> 1]
InitStores == {FreshStore, EarlierSession}

Init ==
  /\ \E s \in InitStores :
       /\ notes = s.notes
       /\ edges = s.edges
       /\ nextId = s.nextId
  /\ transcript = << [id |-> "t1", text |-> "Let's brainstorm an AR idea wall."] >>
  /\ board = NoBoard
  /\ pc = "idle"
  /\ plan = NoPlan
  /\ byLane = EmptyMap
  /\ lx = 0
  /\ row = 0
  /\ idByTaskKey = EmptyMap
  /\ eIdx = 0
  /\ e = NoEdge
  /\ err = "none"
  /\ snapNotes = << >>
  /\ snapEdges = << >>
  /\ ops = << >>
  /\ userAdds = 0
  /\ last = "init"
  /\ again = FALSE
  /\ fn = "none"
  /\ arg = << >>
  /\ res = << >>
  \* listenNotes / listenEdges: prev = the stored array, one "added" each
  /\ prevNotes = notes
  /\ prevEdges = edges
  /\ cbs = DocChanges("notes", << >>, notes) \o DocChanges("edges", << >>, edges)

(* ------------------------------ actions -------------------------------- *)

\* No applyPlanToWall invocation is running
Quiet == pc \in {"idle", "done", "failed"}

\* The invocation has ended: its locals are gone
DropLocals ==
  /\ plan' = NoPlan
  /\ byLane' = EmptyMap
  /\ lx' = 0
  /\ row' = 0
  /\ idByTaskKey' = EmptyMap
  /\ eIdx' = 0
  /\ e' = NoEdge

\* Another operation runs: op names it
Ran(op) ==
  /\ last' = op
  /\ again' = (last = op)
  /\ pc' = pc
  /\ DropLocals
  /\ UNCHANGED <<err, snapNotes, snapEdges, ops>>
  /\ UNCHANGED pipeline

\* applyPlanToWall rejects with msg
Reject(msg) ==
  /\ pc' = "failed"
  /\ err' = msg

\* applyPlanToWall, up to the first store call
ApplyStart(p) ==
  /\ pc = "idle"
  /\ UNCHANGED pipeline
  /\ last' = "apply"
  /\ again' = FALSE
  /\ plan' = p
  /\ snapNotes' = notes
  /\ snapEdges' = edges
  /\ ops' = << >>
  /\ cbs' = << >>
  /\ IF Precondition(p, board) # "ok"
     THEN /\ Reject(Precondition(p, board))
          /\ UNCHANGED <<byLane, lx, row>>
     ELSE /\ pc' = "notes"
          /\ err' = "none"
          /\ byLane' = ByLane(p)
          /\ lx' = 1
          /\ row' = 0
  /\ UNCHANGED <<notes, edges, transcript, nextId, board, idByTaskKey, eIdx, e,
                 userAdds, prevNotes, prevEdges>>

\* addNote called by placeNote; the notes_updated handler runs in the dispatch.
\* localStorage.setItem of the array grown by one entry throws when the quota
\* is exceeded; the exception leaves addNote before the dispatch.
PlaceNote(doc, key) ==
  /\ UNCHANGED pipeline
  /\ \E stored \in BOOLEAN :
       IF stored
       THEN LET id == nextId
                at == After(plan, byLane, lx, row)
            IN  /\ notes' = Append(notes, StoredNote(id, doc))
                /\ nextId' = nextId + 1
                /\ cbs' = cbs \o DocChanges("notes", prevNotes, notes')
                /\ prevNotes' = notes'
                /\ ops' = Append(ops, [op |-> "addNote", id |-> id, lane |-> lx, idx |-> row])
                /\ idByTaskKey' = IF row = 0 THEN idByTaskKey ELSE MapSet(idByTaskKey, key, id)
                /\ pc' = at.pc
                /\ lx' = at.lx
                /\ row' = at.row
                /\ UNCHANGED <<err, plan, byLane, eIdx, e>>
       ELSE /\ Reject("QuotaExceededError")
            /\ DropLocals
            /\ UNCHANGED <<notes, nextId, cbs, prevNotes, ops>>
  /\ UNCHANGED <<edges, transcript, board, snapNotes, snapEdges, userAdds,
                 prevEdges, last, again>>

\* The header note of lane lx
PlaceHeader ==
  /\ pc = "notes"
  /\ row = 0
  /\ PlaceNote(HeaderDoc(board, lx, Lanes(plan)[lx]), "")

\* The row-th task note of lane lx
PlaceTask ==
  /\ pc = "notes"
  /\ row > 0
  /\ LET t == byLane[Lanes(plan)[lx]][row]
     IN  PlaceNote(TaskDoc(board, lx, row, t), TaskKey(t))

\* One iteration of the workflow_edges loop, for the next edge of the array
ApplyEdge(we) ==
  /\ pc = "edges"
  /\ UNCHANGED pipeline
  /\ eIdx < MaxEdges
  /\ LET fromId == Resolve(idByTaskKey, we.from)
         toId == Resolve(idByTaskKey, we.to)
         go == /\ eIdx' = eIdx + 1
               /\ e' = we
               /\ UNCHANGED <<pc, err, plan, byLane, lx, row, idByTaskKey>>
     IN  IF Wires(fromId, toId)
         THEN \E stored \in BOOLEAN :
                IF stored
                THEN /\ edges' = Append(edges, StoredEdge(nextId, fromId, toId, <<AiTag>>))
                     /\ nextId' = nextId + 1
                     /\ cbs' = cbs \o DocChanges("edges", prevEdges, edges')
                     /\ prevEdges' = edges'
                     /\ ops' = Append(ops, [op |-> "addEdge", id |-> nextId, lane |-> 0, idx |-> eIdx + 1])
                     /\ go
                ELSE /\ Reject("QuotaExceededError")
                     /\ DropLocals
                     /\ UNCHANGED <<edges, nextId, cbs, prevEdges, ops>>
         ELSE /\ go
              /\ UNCHANGED <<edges, nextId, cbs, prevEdges, ops>>
  /\ UNCHANGED <<notes, transcript, board, snapNotes, snapEdges, userAdds,
                 prevNotes, last, again>>

\* The workflow_edges array is exhausted: applyPlanToWall resolves
ApplyFinish ==
  /\ pc = "edges"
  /\ UNCHANGED pipeline
  /\ pc' = "done"
  /\ DropLocals
  /\ UNCHANGED <<notes, edges, transcript, nextId, board, err, snapNotes,
                 snapEdges, ops, userAdds, prevNotes, prevEdges, cbs, last, again>>

\* App.tsx NoteModal.onSubmit: addNote of a note the user wrote
AddUserNote ==
  /\ Quiet
  /\ userAdds < MaxUser
  /\ userAdds' = userAdds + 1
  /\ notes' = Append(notes, StoredNote(nextId, UserDoc))
  /\ nextId' = nextId + 1
  /\ cbs' = DocChanges("notes", prevNotes, notes')
  /\ prevNotes' = notes'
  /\ Ran("addNote")
  /\ UNCHANGED <<edges, transcript, board, prevEdges>>

\* clearAppliedPlan: both arrays filtered and written back; no event
clearAppliedPlan ==
  /\ Quiet
  /\ notes' = NotAiGenerated(notes)
  /\ edges' = NotAiGenerated(edges)
  /\ cbs' = << >>
  /\ Ran("clearAppliedPlan")
  /\ UNCHANGED <<transcript, nextId, board, userAdds, prevNotes, prevEdges>>

\* A clearWall whose commented-out removal of the transcript key is live
clearWall_AndTranscript ==
  /\ Quiet
  /\ notes' = << >>
  /\ edges' = << >>
  /\ transcript' = << >>
  /\ cbs' = DocChanges("notes", prevNotes, notes') \o DocChanges("edges", prevEdges, edges')
  /\ prevNotes' = notes'
  /\ prevEdges' = edges'
  /\ Ran("clearWall")
  /\ UNCHANGED <<nextId, board, userAdds>>

\* clearWall: both keys removed, then two "storage" events; each runs the
\* notes handler and the edges handler, and the second finds nothing new.
clearWall ==
  /\ Quiet
  /\ notes' = << >>
  /\ edges' = << >>
  /\ cbs' = DocChanges("notes", prevNotes, notes') \o DocChanges("edges", prevEdges, edges')
  /\ prevNotes' = notes'
  /\ prevEdges' = edges'
  /\ Ran("clearWall")
  /\ UNCHANGED <<transcript, nextId, board, userAdds>>

\* The scene creates its board mesh (Web2DScene.start, WebAR_Marker.placeBoard)
PlaceBoard(b) ==
  /\ Quiet
  /\ ~board.placed
  /\ board' = b
  /\ Ran("placeBoard")
  /\ UNCHANGED <<notes, edges, transcript, nextId, userAdds, prevNotes, prevEdges, cbs>>

Next ==
  \/ \E p \in Plans : ApplyStart(p)
  \/ PlaceHeader
  \/ PlaceTask
  \/ \E we \in WorkflowEdges : ApplyEdge(we)
  \/ ApplyFinish
  \/ AddUserNote
  \/ clearAppliedPlan
  \/ clearWall
  \/ \E b \in BoardPoses : PlaceBoard(b)

Spec == Init /\ [][Next]_vars

(* ------------------------------ properties ------------------------------ *)

\* The invocation is the operation that ran last and its arguments are known
Called == last = "apply" /\ plan # NoPlan
Unchanged == notes = snapNotes /\ edges = snapEdges /\ ops = << >>

\* The store calls of the invocation, by kind
NoteOps == SelectSeq(ops, LAMBDA o : o.op = "addNote")
EdgeOps == SelectSeq(ops, LAMBDA o : o.op = "addEdge")
Entry(s, id) == CHOOSE d \in Range(s) : d.id = id

(* C1: applyPlanToWall called with no tasks rejects with "No tasks to
   apply."; called with tasks but with no board placed it rejects with
   "Board not placed yet." (the task check comes first, so a call with
   neither tasks nor board reports the missing tasks).  Either way no
   addNote and no addEdge is made and the stored notes and edges are those
   before the call. *)
C1_Preconditions ==
  Called =>
    /\ plan.tasks = << >> =>
          pc = "failed" /\ err = "No tasks to apply." /\ Unchanged
    /\ (plan.tasks # << >> /\ ~board.placed) =>
          pc = "failed" /\ err = "Board not placed yet." /\ Unchanged

C1_Witness ==
  /\ Called
  /\ plan.tasks # << >>
  /\ ~board.placed
  /\ err = "Board not placed yet."
  /\ notes # << >>

(* C2: every note and every edge stored by an applyPlanToWall invocation
   (lane headers, task notes and dependency edges) is stored with
   aiGenerated = true. *)
C2_AllAiGenerated ==
  /\ \A i \in 1..Len(NoteOps) :
        NoteOps[i].id \in Ids(notes) => Entry(notes, NoteOps[i].id).ai
  /\ \A i \in 1..Len(EdgeOps) :
        EdgeOps[i].id \in Ids(edges) => Entry(edges, EdgeOps[i].id).ai

NoAi(s) == \A i \in 1..Len(s) : ~s[i].ai

(* C3: applyPlanToWall followed by clearAppliedPlan leaves the stored notes
   and the stored edges exactly as they were before the apply.  Stated for a
   board that held nothing flagged before the apply, so that the clear has
   nothing but the applied plan to remove. *)
C3_ApplyThenClearRestores ==
  [][ ( /\ last = "apply" /\ pc = "done"
        /\ NoAi(snapNotes) /\ NoAi(snapEdges)
        /\ last' = "clearAppliedPlan" )
      => (notes' = snapNotes /\ edges' = snapEdges) ]_vars

\* new holds exactly the unflagged entries of old, in the order of old
Position(s, d) == CHOOSE i \in 1..Len(s) : s[i] = d
KeepsUnflagged(old, new) ==
  /\ \A i \in 1..Len(new) : ~new[i].ai /\ new[i] \in Range(old)
  /\ \A i \in 1..Len(old) : ~old[i].ai => old[i] \in Range(new)
  /\ Len(new) = Cardinality({i \in 1..Len(old) : ~old[i].ai})
  /\ \A i, j \in 1..Len(new) :
        i < j => Position(old, new[i]) < Position(old, new[j])

(* C4: clearAppliedPlan removes exactly the notes and edges flagged
   aiGenerated; every unflagged note and edge stays, unmodified and in the
   same relative order. *)
C4_ClearIsSelective ==
  [][ last' = "clearAppliedPlan"
      => KeepsUnflagged(notes, notes') /\ KeepsUnflagged(edges, edges') ]_vars

\* after a clear: unflagged notes and edges are stored, and the listener's
\* last view still shows the flagged notes the clear removed
C4_Witness ==
  /\ last = "clearAppliedPlan"
  /\ notes # << >>
  /\ edges # << >>
  /\ \E i \in 1..Len(prevNotes) :
        prevNotes[i].ai /\ prevNotes[i].id \notin Ids(notes)

(* C5: an applyPlanToWall invocation that fails leaves the board unchanged:
   the stored notes and edges are those before the call, also when the
   failure is a store write that throws midway. *)
C5_FailedApplyUnchanged ==
  (last = "apply" /\ pc = "failed") =>
    (notes = snapNotes /\ edges = snapEdges)

\* The task a task note of the invocation was made for, the notes made for
\* a task, and the tasks that got a note
TaskNoteOps == SelectSeq(NoteOps, LAMBDA o : o.idx > 0)
TaskOf(o) == byLane[Lanes(plan)[o.lane]][o.idx]
PlacedTasks == {TaskOf(TaskNoteOps[i]) : i \in 1..Len(TaskNoteOps)}
NotesFor(t) ==
  {TaskNoteOps[i].id : i \in {j \in 1..Len(TaskNoteOps) : TaskOf(TaskNoteOps[j]) = t}}
\* k names task t: it is t's title, or it is the id t carries
Names(k, t) == k = t.title \/ (t.id # "" /\ k = t.id)
EdgeOpsAt(n) == SelectSeq(EdgeOps, LAMBDA o : o.idx = n)

(* C6: a workflow edge whose endpoints name two distinct placed tasks, each
   by the task's title or by the task's id, whether or not the task also
   carries the other identifier, produces exactly one edge, from the note
   made for the first task to the note made for the second. *)
C6_EdgeByTitleOrId ==
  (pc = "edges" /\ eIdx > 0) =>
    \A t1, t2 \in PlacedTasks :
      (t1 # t2 /\ Names(e.from, t1) /\ Names(e.to, t2)) =>
        /\ Len(EdgeOpsAt(eIdx)) = 1
        /\ EdgeOpsAt(eIdx)[1].id \in Ids(edges)
        /\ Entry(edges, EdgeOpsAt(eIdx)[1].id).from \in NotesFor(t1)
        /\ Entry(edges, EdgeOpsAt(eIdx)[1].id).to \in NotesFor(t2)

CreatedNotes == {NoteOps[i].id : i \in 1..Len(NoteOps)}
CreatedKeys == {TaskKey(TaskOf(TaskNoteOps[i])) : i \in 1..Len(TaskNoteOps)}
Unresolved(k) == k \notin CreatedKeys /\ normalizeKey(k) \notin CreatedKeys

(* C7: no edge made by applyPlanToWall joins a note to itself or has an
   endpoint that is not a note made in the same invocation.  A workflow edge
   with an endpoint that resolves to no such note (unknown key, task dropped
   by the lane cap), or with both endpoints resolving to the same note, makes
   no edge and raises no error, and the loop over the edges goes on. *)
C7_NoSelfLoopNoDangling ==
  /\ \A i \in 1..Len(EdgeOps) :
        EdgeOps[i].id \in Ids(edges) =>
          /\ Entry(edges, EdgeOps[i].id).from # Entry(edges, EdgeOps[i].id).to
          /\ Entry(edges, EdgeOps[i].id).from \in CreatedNotes
          /\ Entry(edges, EdgeOps[i].id).to \in CreatedNotes
  /\ ( /\ eIdx > 0
       /\ \/ Unresolved(e.from)
          \/ Unresolved(e.to)
          \/ normalizeKey(e.from) = normalizeKey(e.to) )
     => (pc = "edges" /\ err = "none" /\ EdgeOpsAt(eIdx) = << >>)

\* the first workflow edge was skipped and the second one was made
C7_Witness ==
  /\ pc = "edges"
  /\ eIdx = 2
  /\ EdgeOpsAt(1) = << >>
  /\ Len(EdgeOpsAt(2)) = 1
  /\ Len(edges) = Len(snapEdges) + 1

\* The calls the plan asks for: lane by lane in the declared order, the
\* header and then the lane's tasks in task-array order, cut at the cap
SpecLane(t, lanes) == IF t.lane \in Range(lanes) THEN t.lane ELSE lanes[1]
FirstN(s, n) == SubSeq(s, 1, IF Len(s) < n THEN Len(s) ELSE n)
LaneTasks(p, l) ==
  FirstN(SelectSeq(p.tasks, LAMBDA t : SpecLane(t, Lanes(p)) = Lanes(p)[l]), p.cap)
RECURSIVE Expected(_, _)
Expected(p, l) ==
  IF l > Len(Lanes(p)) THEN << >>
  ELSE <<[lane |-> l, idx |-> 0, text |-> <<"lane", Lanes(p)[l]>>]>>
       \o [r \in 1..Len(LaneTasks(p, l)) |->
             [lane |-> l, idx |-> r,
              text |-> <<"[P1]", LaneTasks(p, l)[r].title>>]]
       \o Expected(p, l + 1)
Made ==
  [i \in 1..Len(NoteOps) |->
     [lane |-> NoteOps[i].lane, idx |-> NoteOps[i].idx,
      text |-> Entry(notes, NoteOps[i].id).text]]

(* C8: within one applyPlanToWall invocation every addNote comes before
   every addEdge; the lanes are handled in their declared order, each lane's
   header is made before its task notes, and a lane's task notes are made in
   the order of the tasks array, after the lane cap is applied. *)
C8_CallOrder ==
  (last = "apply" /\ pc \in {"notes", "edges"}) =>
    /\ ops = NoteOps \o EdgeOps
    /\ Len(Made) <= Len(Expected(plan, 1))
    /\ Made = SubSeq(Expected(plan, 1), 1, Len(Made))
    /\ (pc = "edges" \/ EdgeOps # << >>) => Made = Expected(plan, 1)

\* two lanes with a header and a task each, then an edge
C8_Witness ==
  /\ pc = "edges"
  /\ Len(NoteOps) >= 4
  /\ NoteOps[Len(NoteOps)].lane = 2
  /\ NoteOps[Len(NoteOps)].idx > 0
  /\ EdgeOps # << >>

CreatedIds == {ops[i].id : i \in 1..Len(ops)}

(* C9: a listener registered before the apply gets, for each note and edge
   the invocation makes, exactly one callback, of type "added", and these
   callbacks arrive in the order in which the entities were made. *)
C9_OneAddedEach ==
  last = "apply" =>
    SelectSeq(cbs, LAMBDA c : c.id \in CreatedIds)
      = [i \in 1..Len(ops) |->
           [topic |-> IF ops[i].op = "addNote" THEN "notes" ELSE "edges",
            id |-> ops[i].id,
            type |-> "added"]]

C9_Witness ==
  /\ last = "apply"
  /\ pc = "done"
  /\ Len(NoteOps) >= 3
  /\ EdgeOps # << >>
  /\ Len(cbs) > Len(ops)

(* C10: clearAppliedPlan and clearWall are idempotent and raise no error: a
   second call right after the first changes nothing in the stored notes,
   edges or transcript. *)
C10_ClearIdempotent ==
  [][ ( \/ last = "clearAppliedPlan" /\ last' = "clearAppliedPlan"
        \/ last = "clearWall" /\ last' = "clearWall" )
      => /\ notes' = notes
         /\ edges' = edges
         /\ transcript' = transcript
         /\ err' = err
         /\ pc' = pc ]_vars

\* clearAppliedPlan has run twice in a row; it had flagged notes to remove
\* and left unflagged ones
C10_Witness ==
  /\ last = "clearAppliedPlan"
  /\ again
  /\ notes # << >>
  /\ \E i \in 1..Len(prevNotes) : prevNotes[i].ai

(* C11: clearWall removes all notes and all edges of the board, those the
   user made and those flagged aiGenerated alike, and leaves the board's
   transcript entries as they were. *)
C11_ClearWallFrame ==
  [][ last' = "clearWall"
      => /\ notes' = << >>
         /\ edges' = << >>
         /\ transcript' = transcript ]_vars

\* after a clearWall: the listener was told of the removal of an unflagged
\* note, a flagged note and an edge, and the transcript still has its line
C11_Witness ==
  /\ last = "clearWall"
  /\ notes = << >>
  /\ edges = << >>
  /\ transcript # << >>
  /\ \E i \in 1..Len(cbs) :
        cbs[i] = [topic |-> "notes", id |-> 1, type |-> "removed"]
  /\ \E i \in 1..Len(cbs) :
        cbs[i] = [topic |-> "notes", id |-> 2, type |-> "removed"]
  /\ \E i \in 1..Len(cbs) : cbs[i].topic = "edges" /\ cbs[i].type = "removed"

\* The task notes made in lane l, the task of the plan a task note shows,
\* and the tasks of the plan that come before position n and go to the
\* lane of the n-th task
TaskNotesIn(l) == SelectSeq(TaskNoteOps, LAMBDA o : o.lane = l)
Shown(o) ==
  CHOOSE n \in 1..Len(plan.tasks) :
    Entry(notes, o.id).text = <<"[P1]", plan.tasks[n].title>>
Ahead(n) ==
  {m \in 1..(n - 1) :
     SpecLane(plan.tasks[m], Lanes(plan)) = SpecLane(plan.tasks[n], Lanes(plan))}

(* C12: for every plan and every maxPerLane >= 0, applyPlanToWall places at
   most maxPerLane task notes in each lane, the header not counted; every
   task note stands in the lane its task is assigned to, and a task that
   arrives when its lane is full gets no note in any lane. *)
C12_LaneCap ==
  (last = "apply" /\ pc \in {"notes", "edges"}) =>
    /\ \A l \in 1..Len(Lanes(plan)) :
          /\ Len(TaskNotesIn(l)) <= plan.cap
          /\ \A i \in 1..Len(TaskNotesIn(l)) :
                SpecLane(plan.tasks[Shown(TaskNotesIn(l)[i])], Lanes(plan))
                  = Lanes(plan)[l]
    /\ \A n \in 1..Len(plan.tasks) :
          Cardinality(Ahead(n)) >= plan.cap =>
            \A i \in 1..Len(TaskNoteOps) : Shown(TaskNoteOps[i]) # n

\* two lanes, cap 1, both tasks assigned to the first lane: the notes are
\* complete, the first lane has one task note and the second lane has none
C12_Witness ==
  /\ pc = "edges"
  /\ plan.cap = 1
  /\ plan.lanes = <<"FE", "BE">>
  /\ Len(plan.tasks) = 2
  /\ Cardinality(Ahead(2)) = 1
  /\ Len(TaskNotesIn(1)) = 1
  /\ Len(TaskNotesIn(2)) = 0

\* The headers made so far, in the order they were made
HeaderOps == SelectSeq(NoteOps, LAMBDA o : o.idx = 0)
HeaderTexts == [i \in 1..Len(HeaderOps) |-> Entry(notes, HeaderOps[i].id).text]

(* C13: the lane set is workplan.lanes when that is non-empty and the
   single lane "Tasks" otherwise; each task is assigned to the lane its own
   lane field names when that lane is in the set, and to the first lane of
   the set when the field is absent or names no lane of the set. *)
C13_LaneAssignment ==
  (last = "apply" /\ pc \in {"notes", "edges"}) =>
    LET set == IF plan.lanes # << >> THEN plan.lanes ELSE <<"Tasks">>
    IN  /\ DOMAIN byLane = Range(set)
        /\ \A i \in 1..Len(HeaderTexts) : HeaderTexts[i] = <<"lane", set[i]>>
        /\ pc = "edges" => Len(HeaderTexts) = Len(set)
        /\ \A name \in DOMAIN byLane : \A i \in 1..Len(byLane[name]) :
              LET t == byLane[name][i]
              IN  /\ t \in Range(plan.tasks)
                  /\ t.lane \in Range(set) => name = t.lane
                  /\ t.lane \notin Range(set) => name = set[1]

\* lanes FE, BE: a task without a lane stands in FE and a task of lane BE
\* in BE, and both headers are made
C13_Witness ==
  /\ pc = "edges"
  /\ plan.lanes = <<"FE", "BE">>
  /\ \E i \in 1..Len(byLane["FE"]) : byLane["FE"][i].lane = ""
  /\ \E i \in 1..Len(byLane["BE"]) : byLane["BE"][i].lane = "BE"
  /\ Len(HeaderTexts) = 2

\* no lanes given, a task naming the lane BE: it stands in the lane "Tasks"
C13_DefaultLaneReached ==
  /\ pc = "edges"
  /\ plan.lanes = << >>
  /\ \E i \in 1..Len(byLane["Tasks"]) : byLane["Tasks"][i].lane = "BE"

\* The point of board-local space that the board's transform takes to w:
\* the inverse rotation applied to w minus the board's position
Local(w) ==
  LET d == <<w[1] - board.pos[1], w[2] - board.pos[2], w[3] - board.pos[3]>>
  IN  << d[1],
         (d[2] * board.cos5 + d[3] * board.sin5) \div 5,
         (d[3] * board.cos5 - d[2] * board.sin5) \div 5 >>
\* one lane each for the two tasks, and a workflow edge from the first task
\* to the second that names each by the key it is registered under
TwoLanesOneEdge ==
  /\ pc = "edges"
  /\ plan.lanes = <<"FE", "BE">>
  /\ Len(plan.tasks) = 2
  /\ Len(LaneTasks(plan, 1)) = 1
  /\ Len(LaneTasks(plan, 2)) = 1
  /\ eIdx = 1
  /\ e.from = TaskKey(plan.tasks[1])
  /\ e.to = TaskKey(plan.tasks[2])

(* C14: an apply that gets through its note loop has made exactly one
   header note per lane and one note per accepted task (two lanes with one
   task each and one edge across them give 4 notes and 1 edge).  In
   board-local space the lane at index i is in column i, x = startX +
   i * spacingX; the header is at y = startY and the r-th task of a lane
   (r from 0) at y = startY - (r + 1) * spacingY; all are on the board
   plane. *)
C14_GridLayout ==
  (last = "apply" /\ pc \in {"notes", "edges"}) =>
    /\ \A i \in 1..Len(NoteOps) :
          Local(Entry(notes, NoteOps[i].id).position)
            = << startX + (NoteOps[i].lane - 1) * spacingX,
                 startY - NoteOps[i].idx * spacingY,
                 0 >>
    /\ \A i, j \in 1..Len(HeaderOps) :
          i < j => Local(Entry(notes, HeaderOps[i].id).position)[1]
                     < Local(Entry(notes, HeaderOps[j].id).position)[1]
    /\ pc = "edges" =>
          /\ Len(HeaderOps) = Len(Lanes(plan))
          /\ \A l \in 1..Len(Lanes(plan)) :
                Len(TaskNotesIn(l)) = Len(LaneTasks(plan, l))
          /\ Len(notes) = Len(snapNotes) + Len(NoteOps)
    /\ TwoLanesOneEdge =>
          /\ Len(NoteOps) = 4
          /\ Len(EdgeOps) = 1
          /\ Len(edges) = Len(snapEdges) + 1

C14_Witness ==
  /\ TwoLanesOneEdge
  /\ Len(notes) = Len(snapNotes) + 4
  /\ Len(edges) = Len(snapEdges) + 1
  /\ Entry(notes, TaskNoteOps[2].id).position # Entry(notes, TaskNoteOps[1].id).position

(* ----------------------------- aiOutputs.ts ---------------------------- *)

\* entries of a raw tasks array and of a raw workflow_edges array
MaxRaw == 2

\* An entry of a raw array: an object with its properties, or something
\* that is no object (null, a number), whose properties read as undefined
RawTask(title, priority, lane, id) ==
  [isObject |-> TRUE, title |-> title, priority |-> priority, owner |-> Undefined,
   eta |-> Undefined, lane |-> lane, id |-> id]
OwnedTask ==
  [isObject |-> TRUE, title |-> Str("B"), priority |-> Str("P1"), owner |-> Str("Al"),
   eta |-> Str("2d"), lane |-> Str("FE"), id |-> Str("1")]
NullTask ==
  [isObject |-> FALSE, title |-> Undefined, priority |-> Undefined, owner |-> Undefined,
   eta |-> Undefined, lane |-> Undefined, id |-> Undefined]
RawEdge(from, to, kind) == [isObject |-> TRUE, from |-> from, to |-> to, kind |-> kind]
NullEdge == [isObject |-> FALSE, from |-> Undefined, to |-> Undefined, kind |-> Undefined]
\* t?.k
Get(t, k) == IF t.isObject THEN t[k] ELSE Undefined

\* A raw value that is an array with its items, or is none
Array(items) == [isArray |-> TRUE, items |-> items]
NotArray == [isArray |-> FALSE, items |-> << >>]
\* The raw value handed to normalizeAIOutput
Raw(summary, ts, es) ==
  [isObject |-> TRUE, summary_md |-> summary,
   workplan |-> [isObject |-> TRUE, tasks |-> ts, lanes |-> << >>],
   workflow_edges |-> es]
RawNull ==
  [isObject |-> FALSE, summary_md |-> Undefined,
   workplan |-> [isObject |-> FALSE, tasks |-> NotArray, lanes |-> << >>],
   workflow_edges |-> NotArray]
RawNoWorkplan ==
  [isObject |-> TRUE, summary_md |-> Str("S"),
   workplan |-> [isObject |-> FALSE, tasks |-> NotArray, lanes |-> << >>],
   workflow_edges |-> Array(<<RawEdge(Str("A"), Str("B"), Undefined)>>)]
\* A raw value whose workplan declares its lanes
WithLanes(raw, lanes) == [raw EXCEPT !.workplan.lanes = lanes]

TitleVals ==
  {Undefined, Null, Num("0"), Num("5"), Str(""), Str(" "), Str(" A "), Str("  A"),
   Str("A"), AnObject}
PriorityVals ==
  {Undefined, Null, Str(""), Str("P0"), Str("P2"), Str("critical"), Str("high"),
   Str("low"), Num("0"), Num("1")}
RawTasks ==
  {NullTask, OwnedTask, RawTask(Str("C"), Undefined, Num("0"), Num("0"))}
  \cup {RawTask(v, Undefined, Undefined, Undefined) : v \in TitleVals}
  \cup {RawTask(Str("A"), v, Undefined, Undefined) : v \in PriorityVals}
RawEdges ==
  {NullEdge, RawEdge(Str("A"), Str("B"), Str("blocks")), RawEdge(Str("A"), Str(" "), Num("0"))}
  \cup {RawEdge(v, Str(" A "), Undefined) :
          v \in {Undefined, Null, Str(""), Str(" "), Str("  A"), Num("5")}}
RawInputs ==
  {RawNull, RawNoWorkplan,
   Raw(Undefined, NotArray, NotArray),
   Raw(Num("5"), Array(<<OwnedTask>>), NotArray),
   Raw(AnObject, NotArray, Array(<<NullEdge>>))}
  \cup {Raw(Str(" S "), Array(ts), es) :
          ts \in SeqsUpTo(RawTasks, MaxRaw),
          es \in {NotArray, Array(<<RawEdge(Str("A"), Str("B"), Undefined)>>)}}
  \cup {Raw(Undefined, ts, Array(es)) :
          ts \in {NotArray, Array(<<OwnedTask>>)},
          es \in SeqsUpTo(RawEdges, MaxRaw)}
  \cup {WithLanes(Raw(Str(" S "), Array(ts), NotArray), <<"FE", "BE">>) :
          ts \in SeqsUpTo(RawTasks, MaxRaw)}

\* toArray: Array.isArray(v) ? v : []
toArray(v) == IF v.isArray THEN v.items ELSE << >>
\* v ? String(v) : undefined
OptString(v) == IF Truthy(v) THEN Str(String(v)) ELSE Undefined
\* String(v ?? "").trim()
TrimmedString(v) == Trim(String(OrElse(v, Str(""))))

NormTask(t) ==
  [title |-> TrimmedString(Get(t, "title")),
   priority |-> OptString(Get(t, "priority")),
   owner |-> OptString(Get(t, "owner")),
   eta |-> OptString(Get(t, "eta")),
   lane |-> OptString(Get(t, "lane")),
   id |-> OptString(Get(t, "id"))]
\* A filter that lets every task through
KeepTask_All(t) == TRUE
\* .filter(t => t.title.length > 0)
KeepTask(t) == t.title # ""
NormEdge(d) ==
  [from |-> TrimmedString(Get(d, "from")),
   to |-> TrimmedString(Get(d, "to")),
   kind |-> OptString(Get(d, "kind"))]
\* .filter(e => e.from.length > 0 && e.to.length > 0)
KeepEdge(d) == d.from # "" /\ d.to # ""

normalizeAIOutput(raw) ==
  [summary_md |-> String(OrElse(Get(raw, "summary_md"), Str(""))),
   workplan |->
     [tasks |-> SelectSeq(Map(toArray(IF raw.isObject /\ raw.workplan.isObject
                                       THEN raw.workplan.tasks ELSE NotArray),
                              NormTask),
                          KeepTask)],
   workflow_edges |->
     SelectSeq(Map(toArray(IF raw.isObject THEN raw.workflow_edges ELSE NotArray),
                   NormEdge),
               KeepEdge)]

\* An AIOutput handed to normalizeAIOutput as it is
AsRaw(out) ==
  Raw(Str(out.summary_md),
      Array(Map(out.workplan.tasks,
                LAMBDA t : [isObject |-> TRUE, title |-> Str(t.title),
                            priority |-> t.priority, owner |-> t.owner,
                            eta |-> t.eta, lane |-> t.lane, id |-> t.id])),
      Array(Map(out.workflow_edges,
                LAMBDA d : RawEdge(Str(d.from), Str(d.to), d.kind))))

\* JSON.stringify of an object: the properties whose value is undefined are
\* left out; all the others here are strings
Present(o) == {k \in DOMAIN o : k \in {"title", "from", "to"} \/ o[k] # Undefined}
JsonObject(o) == [k \in Present(o) |-> IF k \in {"title", "from", "to"} THEN o[k] ELSE o[k].s]
stringify(out) ==
  [summary_md |-> out.summary_md,
   tasks |-> Map(out.workplan.tasks, JsonObject),
   edges |-> Map(out.workflow_edges, JsonObject)]
\* JSON.parse: a property that is not in the text reads as undefined
Read(j, k) == IF k \in DOMAIN j THEN Str(j[k]) ELSE Undefined
parse(text) ==
  Raw(Str(text.summary_md),
      Array(Map(text.tasks,
                LAMBDA j : [isObject |-> TRUE, title |-> Read(j, "title"),
                            priority |-> Read(j, "priority"), owner |-> Read(j, "owner"),
                            eta |-> Read(j, "eta"), lane |-> Read(j, "lane"),
                            id |-> Read(j, "id")])),
      Array(Map(text.edges,
                LAMBDA j : RawEdge(Read(j, "from"), Read(j, "to"), Read(j, "kind")))))

\* The wall stays as a fresh board while the pipeline functions run
WallAtRest ==
  /\ notes = << >> /\ edges = << >> /\ transcript = << >> /\ nextId = 1
  /\ board = NoBoard /\ pc = "idle" /\ plan = NoPlan /\ byLane = EmptyMap
  /\ lx = 0 /\ row = 0 /\ idByTaskKey = EmptyMap /\ eIdx = 0 /\ e = NoEdge
  /\ err = "none" /\ snapNotes = << >> /\ snapEdges = << >> /\ ops = << >>
  /\ prevNotes = << >> /\ prevEdges = << >> /\ cbs = << >> /\ userAdds = 0
  /\ last = "init" /\ again = FALSE

NormInit ==
  /\ WallAtRest
  /\ fn = "raw"
  /\ arg \in RawInputs
  /\ res = << >>

\* setAIOutput: normalizeAIOutput(raw)
Normalize ==
  /\ fn = "raw"
  /\ fn' = "normalizeAIOutput"
  /\ res' = normalizeAIOutput(arg)
  /\ UNCHANGED <<arg, wall>>

\* normalizeAIOutput applied to an AIOutput it returned
NormalizeAgain ==
  /\ fn = "normalizeAIOutput"
  /\ fn' = "normalizeAIOutput twice"
  /\ arg' = res
  /\ res' = normalizeAIOutput(AsRaw(res))
  /\ UNCHANGED wall

\* writeAIOutput of the AIOutput, then readAIOutput
WriteThenRead ==
  /\ fn = "normalizeAIOutput"
  /\ fn' = "readAIOutput"
  /\ arg' = res
  /\ res' = normalizeAIOutput(parse(stringify(res)))
  /\ UNCHANGED wall

\* planApply.ts: the note titles of the normalized tasks
SummarizeTitles ==
  /\ fn = "normalizeAIOutput"
  /\ fn' = "summarizeTaskTitle"
  /\ arg' = res
  /\ res' = Map(res.workplan.tasks,
                LAMBDA t : summarizeTaskTitle(t.title, t.priority, t.owner, t.eta))
  /\ UNCHANGED wall

NormNext ==
  \/ Normalize
  \/ NormalizeAgain
  \/ WriteThenRead
  \/ SummarizeTitles

NormSpec == NormInit /\ [][NormNext]_vars

\* Strings that are empty or have a blank at an end, and raw values that
\* give no usable string: null, undefined, or nothing but blanks
Untrimmed == {"", " ", " A", " A ", "  A"}
Unusable(v) == v \in {Undefined, Null} \/ v.s \in {"", " "}
RawTaskItems == IF arg.isObject /\ arg.workplan.isObject THEN toArray(arg.workplan.tasks) ELSE << >>
RawEdgeItems == IF arg.isObject THEN toArray(arg.workflow_edges) ELSE << >>
UsableTasks == {i \in 1..Len(RawTaskItems) : ~Unusable(Get(RawTaskItems[i], "title"))}
UsableEdges ==
  {i \in 1..Len(RawEdgeItems) :
     ~Unusable(Get(RawEdgeItems[i], "from")) /\ ~Unusable(Get(RawEdgeItems[i], "to"))}

(* C15: for every raw input (null, missing fields, tasks or edges that are
   no array, entries with blank titles) normalizeAIOutput returns an
   AIOutput in which every task title is a non-empty trimmed string and
   every workflow edge has non-empty trimmed from and to; the entries that
   cannot give that are dropped and the others are kept. *)
C15_NormalizedShape ==
  fn = "normalizeAIOutput" =>
    /\ \A i \in 1..Len(res.workplan.tasks) :
          res.workplan.tasks[i].title \notin Untrimmed
    /\ \A i \in 1..Len(res.workflow_edges) :
          /\ res.workflow_edges[i].from \notin Untrimmed
          /\ res.workflow_edges[i].to \notin Untrimmed
    /\ Len(res.workplan.tasks) = Cardinality(UsableTasks)
    /\ Len(res.workflow_edges) = Cardinality(UsableEdges)

\* two raw tasks: one with a padded title, kept trimmed, and one dropped
C15_Witness ==
  /\ fn = "normalizeAIOutput"
  /\ Len(RawTaskItems) = 2
  /\ \E i \in 1..2 : Get(RawTaskItems[i], "title") = Str(" A ")
  /\ Len(res.workplan.tasks) = 1
  /\ res.workplan.tasks[1].title = "A"

\* The priority the raw priority v is to become
PriorityOf(v) ==
  IF v.s \in {"P0", "critical", "blocker", "must", "0"} THEN "P0"
  ELSE IF v.s \in {"P1", "important", "high", "1"} THEN "P1"
  ELSE "P2"

(* C16: the normalizer maps every task priority into {P0, P1, P2}: P0,
   critical, blocker, must and 0 give P0; important, high and 1 give P1; any
   other value and an absent one give P2.  No task leaves normalization, and
   no note title is made, with a priority outside that set. *)
C16_PriorityClosedSet ==
  /\ fn = "normalizeAIOutput" =>
        /\ \A i \in 1..Len(res.workplan.tasks) :
              res.workplan.tasks[i].priority \in {Str("P0"), Str("P1"), Str("P2")}
        /\ Len(res.workplan.tasks) = Len(RawTaskItems) =>
              \A i \in 1..Len(RawTaskItems) :
                res.workplan.tasks[i].priority
                  = Str(PriorityOf(Get(RawTaskItems[i], "priority")))
  /\ fn = "summarizeTaskTitle" =>
        \A i \in 1..Len(res) : res[i][1] \in {"[P0]", "[P1]", "[P2]"}

(* C17: normalizeAIOutput is idempotent: applied to an AIOutput it returned,
   as it is or after JSON.stringify and JSON.parse as writeAIOutput and
   readAIOutput do, it returns that AIOutput again. *)
C17_NormalizeIdempotent ==
  fn \in {"normalizeAIOutput twice", "readAIOutput"} => res = arg

\* read back after a write: a task without priority, a task with priority,
\* owner and eta, and an edge
C17_Witness ==
  /\ fn = "readAIOutput"
  /\ Len(res.workplan.tasks) = 2
  /\ \E i \in 1..2 : res.workplan.tasks[i].priority = Undefined
  /\ \E i \in 1..2 : res.workplan.tasks[i].owner # Undefined
  /\ Len(res.workflow_edges) = 1

(* ------------- functions/src/index.ts and functions/index.js ------------ *)

MaxBlocks == 2

\* What JSON.parse makes of a fenced block's text: an array, an object (with
\* the text of its workflow_edges property, "" when it has none) or null
JArray(text) == [kind |-> "array", text |-> text, workflow_edges |-> ""]
JObject(text, we) == [kind |-> "object", text |-> text, workflow_edges |-> we]
JNull == [kind |-> "null", text |-> "null", workflow_edges |-> ""]
\* JSON.parse throws on the block's text
SyntaxError == [kind |-> "SyntaxError", text |-> "", workflow_edges |-> ""]
\* codeBlocks[i] past the last block
NoBlock == [kind |-> "undefined", text |-> "", workflow_edges |-> ""]

\* The text of a fenced block and the outcome of JSON.parse on it
Block(text, json) == [text |-> text, json |-> json]
WorkplanBlock == Block("{tasks:[T1],lanes:[L1]}", JObject("{tasks:[T1],lanes:[L1]}", ""))
EdgesBlock == Block("[E1]", JArray("[E1]"))
WrappedEdgesBlock == Block("{workflow_edges:[E1]}", JObject("{workflow_edges:[E1]}", "[E1]"))
NullBlock == Block("null", JNull)
BrokenBlock == Block("{tasks:", SyntaxError)
EmptyBlock == Block("", SyntaxError)
Blocks ==
  {WorkplanBlock, EdgesBlock, WrappedEdgesBlock, NullBlock, BrokenBlock, EmptyBlock}

\* The model's reply: prose, the fenced blocks in document order, prose
Content(head, blocks, tail) == [head |-> head, blocks |-> blocks, tail |-> tail]
Contents ==
  {Content(h, b, t) : h \in {"", " A"}, b \in SeqsUpTo(Blocks, MaxBlocks),
                      t \in {"", " "}}

\* Array.from(txt.matchAll(fence)).map(m => m[1])[i - 1]
codeBlock(content, i) ==
  IF i <= Len(content.blocks) THEN content.blocks[i] ELSE Block("", NoBlock)
\* txt.replace(fence, "").trim()
stripped(content) == Trim(content.head \o content.tail)

\* The fallbacks of planAI
EmptyWorkplan == JObject("{tasks:[],lanes:[]}", "")
EmptyEdges == JArray("[]")

\* safeJson(s, fallback)
safeJson(s, fallback) ==
  IF s.json = NoBlock \/ s.text = "" THEN fallback
  ELSE IF s.json = SyntaxError THEN fallback
  ELSE s.json

\* planAI, from the model's reply to the AIOut it stores and returns
planAI(content) ==
  [summary_md |-> stripped(content),
   workplan |-> safeJson(codeBlock(content, 1), EmptyWorkplan),
   workflow_edges |-> safeJson(codeBlock(content, 2), EmptyEdges),
   threw |-> FALSE]

\* second.workflow_edges || null; reading a property of null throws
edgesOfSecond(second) ==
  CASE second.kind = "array" -> second
    [] second.kind = "object" /\ second.workflow_edges # "" ->
         JArray(second.workflow_edges)
    [] OTHER -> JNull

\* parsePlanOutput(content)
parsePlanOutput(content) ==
  [summary_md |-> stripped(content),
   workplan |->
     IF Len(content.blocks) >= 1 /\ content.blocks[1].json # SyntaxError
     THEN content.blocks[1].json ELSE JNull,
   workflow_edges |->
     IF Len(content.blocks) >= 2 /\ content.blocks[2].json # SyntaxError
     THEN edgesOfSecond(content.blocks[2].json) ELSE JNull,
   threw |-> FALSE]

PlanInit ==
  /\ WallAtRest
  /\ fn = "content"
  /\ arg \in Contents
  /\ res = << >>

\* functions/src/index.ts: the reply goes through planAI's extraction
PlanAI ==
  /\ fn = "content"
  /\ fn' = "planAI"
  /\ res' = planAI(arg)
  /\ UNCHANGED <<arg, wall>>

\* functions/index.js: the reply goes through parsePlanOutput
ParsePlanOutput ==
  /\ fn = "content"
  /\ fn' = "parsePlanOutput"
  /\ res' = parsePlanOutput(arg)
  /\ UNCHANGED <<arg, wall>>

PlanNext ==
  \/ PlanAI
  \/ ParsePlanOutput

PlanSpec == PlanInit /\ [][PlanNext]_vars

\* The i-th fenced block is absent or is not valid JSON
Unparsed(content, i) ==
  i > Len(content.blocks) \/ content.blocks[i].json = SyntaxError

(* C18: fenced-block extraction is field-independent. The first fenced block
   is the work plan and the second the workflow edges (an array, or an object
   holding a workflow_edges key); when a block is absent or is not valid
   JSON, that field alone takes its default empty value, {tasks: [], lanes: []}
   or [], while the other field and summary_md (the text with all fences
   removed, trimmed) are still produced and the call does not fail. *)
C18_FencedBlocksIndependent ==
  fn \in {"planAI", "parsePlanOutput"} =>
    /\ ~res.threw
    /\ res.summary_md = Trim(arg.head \o arg.tail)
    /\ IF Unparsed(arg, 1) THEN res.workplan = EmptyWorkplan
       ELSE res.workplan = arg.blocks[1].json
    /\ IF Unparsed(arg, 2) THEN res.workflow_edges = EmptyEdges
       ELSE LET second == arg.blocks[2].json IN
            /\ second.kind = "array" => res.workflow_edges = second
            /\ second.kind = "object" /\ second.workflow_edges # "" =>
                 res.workflow_edges \in {second, JArray(second.workflow_edges)}

\* The same statement of planAI alone
C18_PlanAIOnly ==
  fn = "planAI" => C18_FencedBlocksIndependent

\* planAI on a reply whose first block is broken and whose second is an array
C18_PlanAIReached ==
  /\ fn = "planAI"
  /\ Len(arg.blocks) = 2
  /\ arg.blocks[1] = BrokenBlock
  /\ arg.blocks[2] = EdgesBlock
  /\ res.workplan = EmptyWorkplan
  /\ res.workflow_edges = JArray("[E1]")
  /\ res.summary_md = "A"

(* ------------------ AISummary.tsx: tasks of a transcript ---------------- *)

MaxSentences == 3
MaxMax == 3
\* max = 8, the default and what the panel passes
DefaultMax == 8

\* The sentences a transcript is made of here, as splitSentences tells them
\* apart: each ends in ".", "!" or "?" and a blank; " " is white space alone
Sentences ==
  {"Fix login now.", "- Fix login NOW!", "Add export soon.", "Build the panel.",
   "We had lunch.", "Fix.", "Show the mesh asap.",
   "Build the panel; show the mesh asap.",
   "This is a P0 blocker: fix the crash.", " "}
Transcripts == SeqsUpTo(Sentences, MaxSentences)

\* !text.trim()
IsBlank(text) == \A i \in 1..Len(text) : text[i] = " "

\* splitSentences: white space runs become one blank, the text is split
\* after each end mark, and the empty pieces are left out
splitSentences(text) == SelectSeq(text, LAMBDA s : Trim(s) # "")

\* s.split(/;\s+|, then\s+| then\s+| and then\s+/i)
splitParts(s) ==
  IF s = "Build the panel; show the mesh asap."
  THEN <<"Build the panel", "show the mesh asap.">>
  ELSE <<s>>

\* normalizeTaskLine: a leading bullet goes
normalizeTaskLine(p) ==
  IF p = "- Fix login NOW!" THEN "Fix login NOW!" ELSE p

\* line.length
Length(line) ==
  CASE line = "Fix login now." -> 14
    [] line = "Fix login NOW!" -> 14
    [] line = "Add export soon." -> 16
    [] line = "Build the panel." -> 16
    [] line = "Build the panel" -> 15
    [] line = "We had lunch." -> 13
    [] line = "Fix." -> 4
    [] line = "Show the mesh asap." -> 19
    [] line = "show the mesh asap." -> 19
    [] line = "This is a P0 blocker: fix the crash." -> 36

\* looksActionable: the line starts with one of the verbs; no line here has
\* then, next, after, so that, task or step
looksActionable(line) ==
  line \notin {"We had lunch.", "This is a P0 blocker: fix the crash."}

\* line.toLowerCase().replace(/[^a-z0-9 ]/g, "").slice(0, 80)
KeyOf(line) ==
  CASE line \in {"Fix login now.", "Fix login NOW!"} -> "fix login now"
    [] line = "Add export soon." -> "add export soon"
    [] line \in {"Build the panel.", "Build the panel"} -> "build the panel"
    [] line = "We had lunch." -> "we had lunch"
    [] line = "Fix." -> "fix"
    [] line \in {"Show the mesh asap.", "show the mesh asap."} -> "show the mesh asap"
    [] line = "This is a P0 blocker: fix the crash." -> "this is a p0 blocker fix the crash"

\* detectPriority: "now", "asap", "p0" and "blocker" are P0_HINTS, "soon" is
\* of P1_HINTS
detectPriority(line) ==
  CASE line \in {"Fix login now.", "Fix login NOW!", "Show the mesh asap.",
                 "show the mesh asap.",
                 "This is a P0 blocker: fix the crash."} -> 0
    [] line = "Add export soon." -> 1
    [] OTHER -> 2

\* detectLane: "export" is of BE_HINTS
detectLane(line) == IF line = "Add export soon." THEN "Backend" ELSE "Frontend"

\* for (const s of sentences) for (const p of parts) raw.push(normalizeTaskLine(p))
RECURSIVE rawLines(_)
rawLines(sentences) ==
  IF sentences = << >> THEN << >>
  ELSE Map(splitParts(Head(sentences)), normalizeTaskLine)
         \o rawLines(Tail(sentences))

\* A sort that leaves the tasks as they are
sortByPrio_None(tasks) == tasks

\* tasks.sort((a, b) => a.prio - b.prio), a stable sort
sortByPrio(tasks) ==
  SelectSeq(tasks, LAMBDA t : t.prio = 0)
    \o SelectSeq(tasks, LAMBDA t : t.prio = 1)
    \o SelectSeq(tasks, LAMBDA t : t.prio = 2)

\* The loop over raw from its i-th line on; id is crypto.randomUUID(), not
\* kept because nothing reads it
RECURSIVE collect(_, _, _, _, _)
collect(raw, i, seen, tasks, max) ==
  IF i > Len(raw) THEN tasks
  ELSE LET line == raw[i] IN
    IF line = "" \/ Length(line) < 6 THEN collect(raw, i + 1, seen, tasks, max)
    ELSE IF ~looksActionable(line) THEN collect(raw, i + 1, seen, tasks, max)
    ELSE IF KeyOf(line) \in seen THEN collect(raw, i + 1, seen, tasks, max)
    ELSE LET pushed == Append(tasks, [title |-> line, lane |-> detectLane(line),
                                      prio |-> detectPriority(line)])
         IN IF Len(pushed) >= max THEN pushed
            ELSE collect(raw, i + 1, seen \cup {KeyOf(line)}, pushed, max)

deriveTasksFromTranscript(text, max) ==
  IF IsBlank(text) THEN << >>
  ELSE sortByPrio(collect(rawLines(splitSentences(text)), 1, {}, << >>, max))

DeriveInit ==
  /\ WallAtRest
  /\ fn = "transcript"
  /\ arg \in [text : Transcripts, max : 0..MaxMax \cup {DefaultMax}]
  /\ res = << >>

DeriveTasks ==
  /\ fn = "transcript"
  /\ fn' = "deriveTasksFromTranscript"
  /\ res' = deriveTasksFromTranscript(arg.text, arg.max)
  /\ UNCHANGED <<arg, wall>>

DeriveNext == DeriveTasks

DeriveSpec == DeriveInit /\ [][DeriveNext]_vars

\* The lines of the transcript, in the order they are found
Found == rawLines(SelectSeq(arg.text, LAMBDA s : s # " "))
\* The i-th line is long enough and actionable, and no line before it has its key
Task(i) ==
  /\ Length(Found[i]) >= 6
  /\ Found[i] \notin {"We had lunch.", "This is a P0 blocker: fix the crash."}
  /\ \A j \in 1..(i - 1) : KeyOf(Found[j]) # KeyOf(Found[i])
\* Where the returned task was found
FoundAt(t) == CHOOSE i \in 1..Len(Found) : Found[i] = t.title /\ Task(i)
\* The i-th line is one of the first n tasks
AmongFirst(i, n) ==
  Task(i) /\ Cardinality({j \in 1..i : Task(j)}) <= n

(* C19: the deriver is bounded. For every transcript text and every max >= 0,
   max = 0 included, deriveTasksFromTranscript(text, max) returns at most max
   tasks, and they are the earliest-found actionable lines in source order,
   not the highest-priority ones. *)
C19_DeriverBounded ==
  fn = "deriveTasksFromTranscript" =>
    /\ Len(res) <= arg.max
    /\ {res[k].title : k \in 1..Len(res)}
         = {Found[i] : i \in {j \in 1..Len(Found) : AmongFirst(j, arg.max)}}

\* The same statement for max >= 1
C19_BoundedFromOne ==
  fn = "deriveTasksFromTranscript" /\ arg.max >= 1 => C19_DeriverBounded

\* max = 1 cuts a P0 line found after a P2 line
C19_CutReached ==
  /\ fn = "deriveTasksFromTranscript"
  /\ arg.max = 1
  /\ arg.text = <<"Build the panel.", "Fix login now.">>
  /\ Len(res) = 1
  /\ res[1].title = "Build the panel."

(* C20: the returned tasks are sorted by prio ascending, tasks of equal prio
   keep the order they were found in, no two returned tasks have the same
   normalized key (the first occurrence wins), and an empty or white-space
   text yields the empty list. *)
C20_DeriverOrdering ==
  fn = "deriveTasksFromTranscript" =>
    /\ \A k \in 1..Len(res) : \E i \in 1..Len(Found) :
          Found[i] = res[k].title /\ Task(i)
    /\ \A k, l \in 1..Len(res) : k < l =>
          /\ res[k].prio <= res[l].prio
          /\ res[k].prio = res[l].prio => FoundAt(res[k]) < FoundAt(res[l])
          /\ KeyOf(res[k].title) # KeyOf(res[l].title)
    /\ (\A i \in 1..Len(arg.text) : arg.text[i] = " ") => res = << >>

\* A P2 line found first is returned last, two P0 lines keep their order, and
\* a second line of a key already seen is left out
C20_Witness ==
  /\ fn = "deriveTasksFromTranscript"
  /\ arg.max = 3
  /\ arg.text = <<"Build the panel.", "Fix login now.",
                  "Build the panel; show the mesh asap.">>
  /\ Map(res, LAMBDA t : t.title)
       = <<"Fix login now.", "show the mesh asap.", "Build the panel.">>

\* A text of blanks alone yields no task
C20_BlankReached ==
  /\ fn = "deriveTasksFromTranscript"
  /\ arg.text = <<" ", " ">>
  /\ arg.max = 3
  /\ res = << >>

(* C21: deriveTasksFromTranscript("This is a P0 blocker: fix the crash.", 8)
   returns exactly one task and that task has prio = 0. *)
C21_PriorityKeywordScenario ==
  /\ fn = "deriveTasksFromTranscript"
  /\ arg = [text |-> <<"This is a P0 blocker: fix the crash.">>, max |-> DefaultMax]
  => Len(res) = 1 /\ res[1].prio = 0

\* The call of the scenario returns no task
C21_NoTaskReached ==
  /\ fn = "deriveTasksFromTranscript"
  /\ arg = [text |-> <<"This is a P0 blocker: fix the crash.">>, max |-> DefaultMax]
  /\ res = << >>

\* aiOut.workplan.lanes of the AIOutput handed to applyPlanToWall; undefined
\* reads as no lanes
LanesHanded(out) ==
  IF "lanes" \in DOMAIN out.workplan THEN out.workplan.lanes ELSE << >>

(* C25: a plan's declared lanes survive the canonical pipeline. For a raw
   output with a non-empty workplan.lanes stored with setAIOutput and read
   back with readAIOutput, the AIOutput handed to applyPlanToWall carries the
   same lanes list, so the lane columns are the declared ones and not the
   single default lane "Tasks". *)
C25_LanesSurvive ==
  /\ fn = "normalizeAIOutput"
  /\ arg.isObject /\ arg.workplan.isObject /\ arg.workplan.lanes # << >>
  => /\ LanesHanded(res) = arg.workplan.lanes
     /\ Lanes([lanes |-> LanesHanded(res)]) = arg.workplan.lanes

\* What was read back of an output declaring two lanes has a task and is
\* laid out in the lane "Tasks"
C25_DefaultLaneReached ==
  /\ fn = "readAIOutput"
  /\ Len(arg.workplan.tasks) > 0
  /\ res = arg
  /\ Lanes([lanes |-> LanesHanded(res)]) = <<"Tasks">>

(* C30: in a single applyPlanToWall every task of the plan produces at most
   one note and every distinct lane name at most one header, also when
   workplan.lanes contains the same lane name more than once. *)
C30_OneNotePerTask ==
  (last = "apply" /\ pc \in {"notes", "edges"}) =>
    /\ \A n \in 1..Len(plan.tasks) :
          Cardinality({i \in 1..Len(TaskNoteOps) :
                         Entry(notes, TaskNoteOps[i].id).text
                           = <<"[P1]", plan.tasks[n].title>>}) <= 1
    /\ \A name \in Range(Lanes(plan)) :
          Cardinality({i \in 1..Len(HeaderTexts) :
                         HeaderTexts[i] = <<"lane", name>>}) <= 1

\* The same statement for plans whose lane names are all different
C30_DistinctLanes ==
  (\A i, j \in 1..Len(plan.lanes) : plan.lanes[i] = plan.lanes[j] => i = j)
    => C30_OneNotePerTask

\* lanes FE, FE and one task: two headers of FE and two notes of the task
C30_TwiceReached ==
  /\ last = "apply"
  /\ pc = "edges"
  /\ plan.lanes = <<"FE", "FE">>
  /\ Len(plan.tasks) = 1
  /\ Len(HeaderTexts) = 2
  /\ Len(TaskNoteOps) = 2

(* C28: once clearAppliedPlan has completed, every listenNotes / listenEdges
   subscriber has received a "removed" callback for each entity it removed:
   the ids the subscriber holds as live are the ids in the store, without
   waiting for a later store update. *)
C28_ListenersFollowClear ==
  last = "clearAppliedPlan" =>
    /\ Ids(prevNotes) = Ids(notes)
    /\ Ids(prevEdges) = Ids(edges)

\* clearAppliedPlan has removed a note the subscriber still holds as live,
\* and no callback was delivered
C28_StaleReached ==
  /\ last = "clearAppliedPlan"
  /\ Ids(prevNotes) \ Ids(notes) # {}
  /\ cbs = << >>

(* ------------------------ db.ts: move and resize ------------------------ *)

\* The id argument: an id that uid() made (a UUID, n stands for it) or the
\* text of an array index
Uuid(n) == [t |-> "uuid", n |-> n]
Index(n) == [t |-> "index", n |-> n]
MaxKey == 6
Keys == {Uuid(n) : n \in 1..MaxKey} \cup {Index(0)}
\* pose.position and size arguments
NewPoses == {<<100, 100, 0>>}
NewSizes == {noteSize + 60}

\* obj[id], obj being what JSON.parse made of the notes key: the array that
\* addNote wrote.  An array has its indices as property names; a UUID names
\* no property of it.  0 stands for undefined.
Property(obj, key) ==
  IF key.t = "index" /\ key.n < Len(obj) THEN key.n + 1 ELSE 0

\* updateNotePose(boardId, id, pose); the storage event it dispatches runs
\* the handler of listenNotes
updateNotePose(key, pose) ==
  /\ Quiet
  /\ fn' = "updateNotePose"
  /\ arg' = [key |-> key, pose |-> pose, size |-> 0]
  /\ res' = notes
  /\ LET i == Property(notes, key)
     IN  IF notes # << >> /\ i # 0
         THEN /\ notes' = [notes EXCEPT ![i].position = pose]
              /\ cbs' = DocChanges("notes", prevNotes, notes')
              /\ prevNotes' = notes'
         ELSE /\ cbs' = << >>
              /\ UNCHANGED <<notes, prevNotes>>
  /\ last' = "updateNotePose"
  /\ again' = (last = "updateNotePose")
  /\ UNCHANGED <<edges, transcript, nextId, board, pc, plan, byLane, lx, row,
                 idByTaskKey, eIdx, e, err, snapNotes, snapEdges, ops,
                 prevEdges, userAdds>>

\* updateNoteSize(boardId, id, size)
updateNoteSize(key, size) ==
  /\ Quiet
  /\ fn' = "updateNoteSize"
  /\ arg' = [key |-> key, pose |-> <<0, 0, 0>>, size |-> size]
  /\ res' = notes
  /\ LET i == Property(notes, key)
     IN  IF notes # << >> /\ i # 0
         THEN /\ notes' = [notes EXCEPT ![i].size = size]
              /\ cbs' = DocChanges("notes", prevNotes, notes')
              /\ prevNotes' = notes'
         ELSE /\ cbs' = << >>
              /\ UNCHANGED <<notes, prevNotes>>
  /\ last' = "updateNoteSize"
  /\ again' = (last = "updateNoteSize")
  /\ UNCHANGED <<edges, transcript, nextId, board, pc, plan, byLane, lx, row,
                 idByTaskKey, eIdx, e, err, snapNotes, snapEdges, ops,
                 prevEdges, userAdds>>

\* The user adds a note by hand, then moves and resizes notes
StoreNext ==
  \/ AddUserNote
  \/ \E key \in Keys, pose \in NewPoses : updateNotePose(key, pose)
  \/ \E key \in Keys, size \in NewSizes : updateNoteSize(key, size)

StoreSpec == Init /\ [][StoreNext]_vars

\* What the store holds after the call when the note of that id has the
\* pose or size of the call and every other note is as before
Updated(before, key, field, value) ==
  [i \in 1..Len(before) |->
     IF key.t = "uuid" /\ before[i].id = key.n
     THEN [before[i] EXCEPT ![field] = value] ELSE before[i]]

(* C27: for a note id returned by addNote and still present,
   updateNotePose(board, id, pose) leaves that stored note with pose = pose
   and updateNoteSize(board, id, size) leaves it with size = size, all other
   notes unchanged; for an id that is not present the store is unchanged. *)
C27_MoveResizePersisted ==
  /\ fn = "updateNotePose" => notes = Updated(res, arg.key, "position", arg.pose)
  /\ fn = "updateNoteSize" => notes = Updated(res, arg.key, "size", arg.size)

\* The note of id 1 is in the store and updateNotePose of that id has left
\* the store as it was
C27_NotMovedReached ==
  /\ fn = "updateNotePose"
  /\ arg.key = Uuid(1)
  /\ 1 \in Ids(res)
  /\ notes = res

\* updateNoteSize with the key "0", which is no note's id, has resized the
\* first note of the array
C27_IndexReached ==
  /\ fn = "updateNoteSize"
  /\ arg.key = Index(0)
  /\ notes # res
  /\ notes[1].size = noteSize + 60

(* ----------------------- App.tsx: Apply to Wall ------------------------- *)

\* Clicks on the Apply button, each running onApplyPlan, and the store calls
\* one applyPlanToWall makes
MaxClicks == 3
MaxPlaced == 2
Clicks == 1..MaxClicks

\* Where an onApplyPlan invocation stands:
\*   "idle"      not clicked yet
\*   "building"  ensureRenderableAIOut waits for the model's reply
\*   "resumed"   ensureRenderableAIOut has resolved, the continuation is queued
\*   "applying"  applyPlanToWall has been called and has not settled
\*   "done"      the handler has returned
Placed(log, h) == Len(SelectSeq(log, LAMBDA o : o.h = h /\ o.op = "addNote"))

\* An event loop that takes the next task while continuations are queued
Drained_Never == TRUE

\* The browser takes the next task (a click, a reply of the network) only
\* when no continuation is queued.  Every await of applyPlanToWall is on a
\* promise that db.ts has already settled (localStorage is synchronous), so
\* its continuations are queued from its call to its end
Drained == \A h \in Clicks : arg.pc[h] \notin {"resumed", "applying"}

UiInit ==
  /\ WallAtRest
  /\ fn = "render"
  /\ arg \in [pc : {[h \in Clicks |-> "idle"]}, aiOut : BOOLEAN]
  /\ res = << >>

\* A click on Apply: onApplyPlan up to its first await.  started is
\* xrRef.current, key is hasGeminiKey()
Click(h, started, key) ==
  /\ Drained
  /\ arg.pc[h] = "idle"
  /\ fn' = "onApplyPlan"
  /\ arg' = [arg EXCEPT !.pc[h] = IF ~started THEN "done"
                                  ELSE IF arg.aiOut \/ ~key THEN "resumed"
                                  ELSE "building"]
  /\ UNCHANGED <<res, wall>>

\* The model's reply arrives: buildAIOutputFromPlan resolves, setAiOut(built)
PlanBuilt(h) ==
  /\ Drained
  /\ arg.pc[h] = "building"
  /\ fn' = "ensureRenderableAIOut"
  /\ arg' = [arg EXCEPT !.pc[h] = "resumed", !.aiOut = TRUE]
  /\ UNCHANGED <<res, wall>>

\* The continuation of onApplyPlan calls applyPlanToWall
CallApply(h) ==
  /\ arg.pc[h] = "resumed"
  /\ fn' = "applyPlanToWall"
  /\ arg' = [arg EXCEPT !.pc[h] = "applying", !.aiOut = TRUE]
  /\ res' = Append(res, [h |-> h, op |-> "call"])
  /\ UNCHANGED wall

\* A continuation of applyPlanToWall: the next addNote, and after the last
\* one the return to onApplyPlan, which ends
ApplyStep(h) ==
  /\ arg.pc[h] = "applying"
  /\ fn' = "addNote"
  /\ res' = Append(res, [h |-> h, op |-> "addNote"])
  /\ arg' = [arg EXCEPT !.pc[h] = IF Placed(res', h) >= MaxPlaced THEN "done"
                                  ELSE "applying"]
  /\ UNCHANGED wall

UiNext ==
  \/ \E h \in Clicks, started, key \in BOOLEAN : Click(h, started, key)
  \/ \E h \in Clicks : PlanBuilt(h)
  \/ \E h \in Clicks : CallApply(h)
  \/ \E h \in Clicks : ApplyStep(h)

UiSpec == UiInit /\ [][UiNext]_vars

(* C26: the application never has two applyPlanToWall invocations in flight
   at the same time for the same board: a click on Apply while an apply is
   running does not start a second apply that interleaves with it. *)
C26_AppliesSerialized ==
  fn \in {"onApplyPlan", "ensureRenderableAIOut", "applyPlanToWall", "addNote"} =>
    /\ Cardinality({h \in Clicks : arg.pc[h] = "applying"}) <= 1
    /\ \A i, k \in 1..Len(res) : \A j \in i..k :
          res[i].h = res[k].h => res[j].h = res[i].h

\* Two clicks are being served at once: the first handler still waits for
\* its plan while the second has an applyPlanToWall half-way
C26_Witness ==
  /\ \E h1, h2 \in Clicks :
        /\ arg.pc[h1] = "building"
        /\ arg.pc[h2] = "applying"
        /\ Placed(res, h2) = 1

(* ------------------- the store kept with localforage -------------------- *)

\* Calls made without awaiting one another, on one board
MaxCalls == 3
Calls == 1..MaxCalls
CallKinds == {"addNote", "voteNote", "updateNotePose"}

\* The notes map under boards/<board>/notes: note id -> its votes and pose.
\* Note 0 is on the board from the start; the note that call c adds gets the
\* id c (crypto.randomUUID() gives each call an id of its own).  voteNote
\* and updateNotePose are called for note 0.
FirstNotes == [n \in {0} |-> [votes |-> 0, pose |-> "p0"]]
MapPut(m, k, v) == [x \in DOMAIN m \cup {k} |-> IF x = k THEN v ELSE m[x]]

\* What the call makes of the map it has read, between getJSON and setJSON
Modified(c, kind, m) ==
  CASE kind = "addNote" -> MapPut(m, c, [votes |-> 0, pose |-> "p0"])
    [] kind = "voteNote" -> [m EXCEPT ![0].votes = @ + 1]
    [] kind = "updateNotePose" -> [m EXCEPT ![0].pose = "p1"]

ForageInit ==
  /\ WallAtRest
  /\ fn = "none"
  /\ arg \in [kind : [Calls -> CallKinds], stored : {FirstNotes}]
  /\ res = [c \in Calls |-> [pc |-> "called", notes |-> << >>]]

\* await getJSON(key, {}) resolves for call c; the call changes the map it
\* got and hands its text to localforage.setItem
GetJSON(c) ==
  /\ res[c].pc = "called"
  /\ fn' = "getJSON"
  /\ res' = [res EXCEPT ![c] =
               IF arg.kind[c] # "addNote" /\ 0 \notin DOMAIN arg.stored
               THEN [pc |-> "returned", notes |-> << >>]
               ELSE [pc |-> "writing",
                     notes |-> Modified(c, arg.kind[c], arg.stored)]]
  /\ UNCHANGED <<arg, wall>>

\* localforage.setItem of call c is carried out: await setJSON resolves, the
\* call emits its event and returns
SetJSON(c) ==
  /\ res[c].pc = "writing"
  /\ fn' = "setJSON"
  /\ arg' = [arg EXCEPT !.stored = res[c].notes]
  /\ res' = [res EXCEPT ![c] = [pc |-> "returned", notes |-> << >>]]
  /\ UNCHANGED wall

ForageNext ==
  \/ \E c \in Calls : GetJSON(c)
  \/ \E c \in Calls : SetJSON(c)

ForageSpec == ForageInit /\ [][ForageNext]_vars

\* The calls of a kind that have returned
Returned(kind) == {c \in Calls : arg.kind[c] = kind /\ res[c].pc = "returned"}

(* C29: no lost writes in the localforage-backed store. Under every
   interleaving of concurrently running addNote, voteNote and updateNotePose
   calls on the same board, every note whose addNote has completed is in the
   stored notes map and every completed vote is counted in the stored votes
   value. *)
C29_NoLostWrites ==
  fn \in {"getJSON", "setJSON"} =>
    /\ \A c \in Returned("addNote") : c \in DOMAIN arg.stored
    /\ arg.stored[0].votes = Cardinality(Returned("voteNote"))

\* Two addNote calls have returned and the note of the first is not stored
C29_LostNoteReached ==
  /\ arg.kind[1] = "addNote"
  /\ arg.kind[2] = "addNote"
  /\ res[1].pc = "returned"
  /\ res[2].pc = "returned"
  /\ 1 \notin DOMAIN arg.stored
  /\ 2 \in DOMAIN arg.stored

(* --------------------------- POST /api/ai/plan -------------------------- *)

\* A request and what its surroundings do: whether the body names a board,
\* whether Firestore answers the reads, whether OPENAI_API_KEY is set, what
\* the call of the model comes to, and the model's reply
Requests ==
  [method : {"POST", "GET"}, boardId : BOOLEAN, firestore : {"up", "down"},
   key : BOOLEAN, upstream : {"ok", "http error", "network error"},
   content : {Content(" A", <<WorkplanBlock, EdgesBlock>>, ""),
              Content("", <<BrokenBlock>>, " ")}]

NoAnswer == [status |-> 0, log |-> << >>, body |-> << >>]
Answer(status) == [status |-> status, log |-> <<"respond">>, body |-> << >>]

\* The checks with the credential looked at before the board id
Refusal_KeyFirst(req) ==
  IF req.method # "POST" THEN 405
  ELSE IF ~req.key THEN 500
  ELSE IF ~req.boardId THEN 400
  ELSE IF req.firestore = "down" THEN 500
  ELSE IF req.upstream = "network error" THEN 500
  ELSE IF req.upstream = "http error" THEN 502
  ELSE 0

\* The status the handler answers with before it has a reply of the model,
\* 0 when it goes on: the checks in the order the handler makes them; a
\* rejected read or fetch is caught by the handler's catch
Refusal(req) ==
  IF req.method # "POST" THEN 405
  ELSE IF ~req.boardId THEN 400
  ELSE IF req.firestore = "down" THEN 500
  ELSE IF ~req.key THEN 500
  ELSE IF req.upstream = "network error" THEN 500
  ELSE IF req.upstream = "http error" THEN 502
  ELSE 0

\* The handler: out is what planAI's or parsePlanOutput's extraction makes
\* of the model's reply
Handle(req, out) ==
  IF Refusal(req) # 0 THEN Answer(Refusal(req))
  ELSE [status |-> 200, log |-> <<"ai_outputs.add", "respond">>,
        body |-> out]

EndpointInit ==
  /\ WallAtRest
  /\ fn = "request"
  /\ arg \in Requests
  /\ res = NoAnswer

\* planAI of functions/src/index.ts
PlanEndpointTs ==
  /\ fn = "request"
  /\ fn' = "planAI (index.ts)"
  /\ res' = Handle(arg, planAI(arg.content))
  /\ UNCHANGED <<arg, wall>>

\* planAI of functions/index.js
PlanEndpointJs ==
  /\ fn = "request"
  /\ fn' = "planAI (index.js)"
  /\ res' = Handle(arg, parsePlanOutput(arg.content))
  /\ UNCHANGED <<arg, wall>>

EndpointNext ==
  \/ PlanEndpointTs
  \/ PlanEndpointJs

EndpointSpec == EndpointInit /\ [][EndpointNext]_vars

\* The ai_outputs records the handler has written
Written == Len(SelectSeq(res.log, LAMBDA o : o = "ai_outputs.add"))

(* C24: a POST without boardId is answered 400, a missing upstream
   credential 500 and a model call that the upstream answers with an error
   502, and in none of these cases is an ai_outputs record written; a
   successful request writes exactly one new ai_outputs record and then
   responds with the plan. *)
C24_OutcomeMapping ==
  (fn \in {"planAI (index.ts)", "planAI (index.js)"} /\ arg.method = "POST") =>
    /\ ~arg.boardId => res.status = 400 /\ Written = 0
    /\ (arg.boardId /\ arg.firestore = "up" /\ ~arg.key) =>
          res.status = 500 /\ Written = 0
    /\ (arg.boardId /\ arg.firestore = "up" /\ arg.key
          /\ arg.upstream = "http error") => res.status = 502 /\ Written = 0
    /\ (arg.boardId /\ arg.firestore = "up" /\ arg.key /\ arg.upstream = "ok") =>
          /\ res.status = 200
          /\ res.log = <<"ai_outputs.add", "respond">>
          /\ res.body.summary_md = Trim(arg.content.head \o arg.content.tail)
    /\ res.status # 200 => Written = 0

\* A request that has neither board id nor credential is answered 400
C24_Witness ==
  /\ fn = "planAI (index.js)"
  /\ arg.method = "POST"
  /\ ~arg.boardId
  /\ ~arg.key
  /\ res.status = 400

\* A good request is answered with the plan after one record was written
C24_SuccessReached ==
  /\ fn = "planAI (index.ts)"
  /\ res.status = 200
  /\ Written = 1
  /\ res.body.workflow_edges = JArray("[E1]")

\* A fetch that rejects is answered 500
C24_NetworkErrorReached ==
  /\ fn = "planAI (index.ts)"
  /\ arg.upstream = "network error"
  /\ res.status = 500

(* --------------------------- aiPlanGemini.ts ---------------------------- *)

PlanOps == {"createPlanFromTranscript", "refinePlan", "summarizePlan"}

\* The text callGemini makes of the model's answer
Replies ==
  {"", "Sure, here is the plan", "fenced {title, steps: [{id, text}], summary}",
   "{steps: [{id, text}]}", "{steps: 'soon'}", "{steps: [null]}",
   "{steps: [{id}]}", "42", "null"}

\* stripJSONFence: the inside of the first fence, trimmed, or the text trimmed
stripJSONFence(s) ==
  IF s = "fenced {title, steps: [{id, text}], summary}"
  THEN "{title, steps: [{id, text}], summary}" ELSE s

\* safeParseJSON: what JSON.parse returns, null when it throws.  steps tells
\* what the steps property is; a step of "textless" has no text property
NotParsed == [json |-> "null", steps |-> "undefined", summary |-> FALSE]
safeParseJSON(s) ==
  CASE s = "{title, steps: [{id, text}], summary}" ->
         [json |-> "object", steps |-> "array", summary |-> TRUE]
    [] s = "{steps: [{id, text}]}" ->
         [json |-> "object", steps |-> "array", summary |-> FALSE]
    [] s = "{steps: 'soon'}" ->
         [json |-> "object", steps |-> "string", summary |-> FALSE]
    [] s = "{steps: [null]}" ->
         [json |-> "object", steps |-> "array of null", summary |-> FALSE]
    [] s = "{steps: [{id}]}" ->
         [json |-> "object", steps |-> "textless", summary |-> FALSE]
    [] s = "42" -> [json |-> "number", steps |-> "undefined", summary |-> FALSE]
    [] OTHER -> NotParsed

\* (steps ?? fallback).map(normalizeStep) throws: a string has no map, and
\* normalizeStep reads s.id of null
MapThrows(parsed) == parsed.steps \in {"string", "array of null"}
\* quickSummaryFromSteps(steps) throws: s.text.replace of a step without text
QuickSummaryThrows(parsed) == parsed.steps = "textless"

Pending == [state |-> "pending", from |-> "none"]
Rejected == [state |-> "rejected", from |-> "none"]
Resolved(from) == [state |-> "resolved", from |-> from]

\* createPlanFromTranscript once callGemini has returned text
createPlanFromTranscript(text) ==
  LET parsed == safeParseJSON(stripJSONFence(text))
  IN  IF parsed.json = "null" THEN Resolved("fallbackPlanFromTranscript")
      ELSE IF MapThrows(parsed) THEN Rejected
      ELSE IF ~parsed.summary /\ QuickSummaryThrows(parsed) THEN Rejected
      ELSE Resolved("model")

\* refinePlan once callGemini has returned text, up to its summary:
\* "summarizePlan" when it goes on to ask the model for one
refinePlan(text, key) ==
  LET parsed == safeParseJSON(stripJSONFence(text))
  IN  IF parsed.json = "null" THEN Resolved("previous plan")
      ELSE IF MapThrows(parsed) THEN Rejected
      ELSE IF parsed.summary \/ ~key THEN Resolved("model")
      ELSE [state |-> "summarizePlan", from |-> "model"]

\* The timer of callGemini ends without aborting the request
TimerFires_NoAbort ==
  /\ res.pc \in {"fetch", "json", "text"}
  /\ res.timer = "armed"
  /\ fn' = "abort"
  /\ res' = [res EXCEPT !.timer = "fired", !.abandoned = TRUE]
  /\ UNCHANGED <<arg, wall>>

GeminiInit ==
  /\ WallAtRest
  /\ fn = "none"
  /\ arg \in [op : PlanOps, key : BOOLEAN]
  /\ res = [pc |-> "called", phase |-> "plan", timer |-> "none",
            abandoned |-> FALSE, late |-> FALSE, text |-> "", out |-> Pending]

\* callGemini up to its first await; summarizePlan and callGemini return at
\* once when there is no key
CallGemini ==
  /\ res.pc = "called"
  /\ fn' = "callGemini"
  /\ res' = IF arg.key
            THEN [res EXCEPT !.pc = "fetch", !.timer = "armed", !.abandoned = FALSE,
                             !.text = ""]
            ELSE [res EXCEPT !.pc = "returned", !.text = ""]
  /\ UNCHANGED <<arg, wall>>

\* fetch resolves with the response's status line
Headers(ok) ==
  /\ res.pc = "fetch"
  /\ fn' = "fetch"
  /\ res' = [res EXCEPT !.pc = IF ok THEN "json" ELSE "text"]
  /\ UNCHANGED <<arg, wall>>

\* res.json() resolves; callGemini returns the text of the candidate
Body(reply) ==
  /\ res.pc = "json"
  /\ fn' = "res.json"
  /\ res' = [res EXCEPT !.pc = "returned", !.timer = "cleared", !.text = reply]
  /\ UNCHANGED <<arg, wall>>

\* !res.ok: the error text is logged and callGemini returns ""
HttpError ==
  /\ res.pc = "text"
  /\ fn' = "res.text"
  /\ res' = [res EXCEPT !.pc = "returned", !.timer = "cleared", !.text = ""]
  /\ UNCHANGED <<arg, wall>>

\* fetch or the reading of the body rejects: the catch returns ""
NetworkFails ==
  /\ res.pc \in {"fetch", "json", "text"}
  /\ fn' = "catch"
  /\ res' = [res EXCEPT !.pc = "returned", !.timer = "cleared", !.text = ""]
  /\ UNCHANGED <<arg, wall>>

\* setTimeout(() => controller.abort(), timeoutMs) fires: the pending fetch
\* or body read rejects with AbortError and the catch returns ""
TimerFires ==
  /\ res.pc \in {"fetch", "json", "text"}
  /\ res.timer = "armed"
  /\ fn' = "abort"
  /\ res' = [res EXCEPT !.pc = "returned", !.timer = "fired", !.abandoned = TRUE,
                        !.text = ""]
  /\ UNCHANGED <<arg, wall>>

\* The answer to an aborted request reaches the browser
LateReply ==
  /\ res.abandoned
  /\ ~res.late
  /\ res.pc \notin {"fetch", "json", "text"}
  /\ fn' = "late reply"
  /\ res' = [res EXCEPT !.late = TRUE]
  /\ UNCHANGED <<arg, wall>>

\* The operation goes on after `await callGemini(...)`
Continue ==
  /\ res.pc = "returned"
  /\ fn' = arg.op
  /\ LET out == CASE arg.op = "summarizePlan" \/ res.phase = "summary" ->
                       Resolved(IF res.text = "" THEN "quickSummaryFromSteps"
                                ELSE "model")
                  [] arg.op = "createPlanFromTranscript" ->
                       createPlanFromTranscript(res.text)
                  [] OTHER -> refinePlan(res.text, arg.key)
     IN  res' = IF out.state = "summarizePlan"
                THEN [res EXCEPT !.pc = "called", !.phase = "summary"]
                ELSE [res EXCEPT !.pc = "settled", !.out = out]
  /\ UNCHANGED <<arg, wall>>

GeminiNext ==
  \/ CallGemini
  \/ \E ok \in BOOLEAN : Headers(ok)
  \/ \E reply \in Replies : Body(reply)
  \/ HttpError
  \/ NetworkFails
  \/ TimerFires
  \/ LateReply
  \/ Continue

GeminiSpec == GeminiInit /\ [][GeminiNext]_vars

\* The timer callback and the continuations that are ready do run
GeminiLive ==
  GeminiSpec /\ WF_vars(TimerFires) /\ WF_vars(CallGemini) /\ WF_vars(Continue)

(* C22: createPlanFromTranscript, refinePlan and summarizePlan each resolve
   with a usable plan or summary and never reject, whatever the backend
   does: no API key, HTTP error, network failure, timeout, empty text,
   non-JSON text, or JSON of an unexpected shape (steps that is not an array
   or contains null); in those cases the local fallback plan or the previous
   plan is returned. *)
C22_PlanNeverRejects ==
  res.pc = "settled" => res.out.state = "resolved"

\* The same statement of summarizePlan, and of the other two when the model
\* was not reached or its text is empty or is not JSON
C22_FallbackCases ==
  (res.pc = "settled" /\
   (arg.op = "summarizePlan" \/ res.text \in {"", "Sure, here is the plan", "null"}))
    => res.out.state = "resolved"

\* createPlanFromTranscript rejects on a reply whose steps is a string
C22_RejectReached ==
  /\ arg.op = "createPlanFromTranscript"
  /\ res.pc = "settled"
  /\ res.text = "{steps: 'soon'}"
  /\ res.out = Rejected

\* A model call is in progress
InCall == res.pc \in {"fetch", "json", "text"}

(* C23: a model call that has not completed when the timer of timeoutMs
   fires is aborted and callGemini resolves to "": an answer arriving after
   the abort is never returned to the caller or used to build the plan; and
   every callGemini invocation eventually resolves. *)
C23_TimeoutAbandons ==
  /\ [](res.abandoned =>
          /\ ~InCall
          /\ res.text = ""
          /\ res.out.from # "model")
  /\ (InCall ~> ~InCall)

\* The call was aborted, its answer came late, and the plan is the local one
C23_Witness ==
  /\ res.abandoned
  /\ res.late
  /\ res.pc = "settled"
  /\ res.text = ""
  /\ res.out = Resolved("fallbackPlanFromTranscript")

====
